---------------------------- MODULE Spec2Model ----------------------------
(***************************************************************************)
(* Model of src/main.py: two job-board pipelines (HeadHunter, SuperJob).   *)
(* Each pipeline obtains a token, pages through the search results of      *)
(* every language, estimates a ruble salary per vacancy and averages the   *)
(* estimates per language; the two tables are printed at the end.          *)
(*                                                                         *)
(* Python values are represented as follows.                               *)
(*   None / an int or dict that may be None : <<>> / <<x>>  (None, Some)   *)
(*   a None currency or token              : the string "None"            *)
(*   dict                                   : a function on its keys       *)
(*   list                                   : a sequence                   *)
(*   an uncaught exception                  : error # "none", pc "crashed" *)
(* int(x * 0.8), int(x * 1.2) and int(a / b) are computed on the exact     *)
(* rational value; for bounds in 0 .. 2 000 000 the float results of the   *)
(* source are the same integers.                                           *)
(***************************************************************************)
EXTENDS Integers, Sequences, FiniteSets, TLC

VARIABLES
    pc,                 \* position of the program
    hh_token,           \* main: hh_token
    sj_token,           \* main: sj_token
    language_vacancies, \* fetcher local: language -> [items, found]
    lang,               \* fetcher: index of the for loop over the languages
    page,               \* fetcher local: page
    pages,              \* get_all_hh_vacancies local: pages
    is_more,            \* get_all_sj_vacancies local: is_more
    params,             \* fetcher local: params of the last request sent
    response,           \* fetcher local: the last response received
    sent,               \* requests sent for the current language
    received,           \* listings of the successful responses of the current language, in order
    first_found,        \* total match count the first response of the current language reported
    all_hh_vacancies,   \* main: all_hh_vacancies
    all_sj_vacancies,   \* main: all_sj_vacancies
    hh_average_salary,  \* main: hh_average_salary
    sj_average_salary,  \* main: sj_average_salary
    printed,            \* tables written by print_statistic
    error,              \* the uncaught exception that ended the run, or "none"
    vacancy,            \* collect_average_salary local: vacancy
    rub_salary          \* collect_average_salary local: rub_salary

vars == <<pc, hh_token, sj_token, language_vacancies, lang, page, pages, is_more,
          params, response, sent, received, first_found, all_hh_vacancies,
          all_sj_vacancies, hh_average_salary, sj_average_salary, printed, error,
          vacancy, rub_salary>>

----------------------------------------------------------------------------
(* Python values *)

None == <<>>

Some(x) == <<x>>

Val(o) == o[1]

\* Python truthiness of an Optional[int]: None and 0 are falsy.
Falsy(o) == o = None \/ Val(o) = 0

\* int(n / d) for d > 0: truncation towards zero.
Trunc(n, d) == IF n >= 0 THEN n \div d ELSE -((-n) \div d)

EmptyDict == [k \in {} |-> None]

\* d[k] = v on a dict.
DictSet(d, k, v) == [x \in DOMAIN d \cup {k} |-> IF x = k THEN v ELSE d[x]]

----------------------------------------------------------------------------
(* Bounds and input sets *)

\* Largest salary bound enumerated besides the sample values.
MaxBound == 7

\* Largest number of requests per language the servers are driven to.
MaxRequests == 3

\* Longest items list of a result set handed to collect_average_salary.
MaxItems == 2

SalaryBounds == {None} \cup {Some(n) : n \in 0..MaxBound} \cup {Some(1000), Some(2000)}

HHCurrencies == {"RUR", "USD", "None"}

SJCurrencies == {"rub", "usd", "None"}

HHVacancy(c, f, t) == [salary |-> Some([currency |-> c, from |-> f, to |-> t])]

HHNoSalary == [salary |-> None]

SJVacancy(c, f, t) == [currency |-> c, payment_from |-> f, payment_to |-> t]

HHVacancies ==
    {HHNoSalary} \cup {HHVacancy(c, f, t) : c \in HHCurrencies, f \in SalaryBounds, t \in SalaryBounds}

SJVacancies ==
    {SJVacancy(c, f, t) : c \in SJCurrencies, f \in SalaryBounds, t \in SalaryBounds}

----------------------------------------------------------------------------
(* Salary estimators *)

\* predict_hh_rub_salary with the factor of the "only to" branch used in the
\* "only from" branch as well.
predict_hh_same_factor(v) ==
    IF v.salary = None THEN None
    ELSE LET salary == Val(v.salary) IN
         IF salary.currency # "RUR" THEN None
         ELSE IF salary.from = None
              THEN IF salary.to = None THEN None
                   ELSE Some(Trunc(Val(salary.to) * 8, 10))
         ELSE IF salary.to = None
              THEN Some(Trunc(Val(salary.from) * 8, 10))
         ELSE Some(Trunc(2 * Val(salary.from) + (Val(salary.to) - Val(salary.from)), 2))

predict_hh_rub_salary(v) ==
    IF v.salary = None THEN None
    ELSE LET salary == Val(v.salary) IN
         IF salary.currency # "RUR" THEN None
         ELSE IF salary.from = None
              THEN IF salary.to = None THEN None
                   ELSE Some(Trunc(Val(salary.to) * 8, 10))
         ELSE IF salary.to = None
              THEN Some(Trunc(Val(salary.from) * 12, 10))
         ELSE Some(Trunc(2 * Val(salary.from) + (Val(salary.to) - Val(salary.from)), 2))

predict_sj_rub_salary(v) ==
    IF Falsy(v.payment_from)
    THEN IF Falsy(v.payment_to) THEN None
         ELSE Some(Trunc(Val(v.payment_to) * 8, 10))
    ELSE IF Falsy(v.payment_to)
         THEN Some(Trunc(Val(v.payment_from) * 12, 10))
    ELSE Some(Trunc(2 * Val(v.payment_from) + (Val(v.payment_to) - Val(v.payment_from)), 2))

Predict(p, v) == IF p = "hh" THEN predict_hh_rub_salary(v) ELSE predict_sj_rub_salary(v)

----------------------------------------------------------------------------
(* Initial values shared by the specifications *)

NoParams == [platform |-> "none"]

NoResponse == [status |-> 0]

NoVacancy == [none |-> TRUE]

IdleFetcher ==
    /\ language_vacancies = EmptyDict
    /\ lang = 1
    /\ page = 0
    /\ pages = 1
    /\ is_more = TRUE
    /\ params = NoParams
    /\ response = NoResponse
    /\ sent = 0
    /\ received = <<>>
    /\ first_found = None

NoOutput ==
    /\ hh_average_salary = None
    /\ sj_average_salary = None
    /\ printed = <<>>
    /\ error = "none"

Idle ==
    /\ hh_token = "None"
    /\ sj_token = "None"
    /\ IdleFetcher
    /\ all_hh_vacancies = None
    /\ all_sj_vacancies = None
    /\ NoOutput

----------------------------------------------------------------------------
(* The estimators applied to one vacancy: rub_salary = predictor(vacancy) *)

InitPredict ==
    /\ Idle
    /\ \/ pc = "predict_hh" /\ vacancy \in HHVacancies
       \/ pc = "predict_sj" /\ vacancy \in SJVacancies
    /\ rub_salary = None

PredictHH ==
    /\ pc = "predict_hh"
    /\ rub_salary' = predict_hh_rub_salary(vacancy)
    /\ pc' = "predicted_hh"
    /\ UNCHANGED <<hh_token, sj_token, language_vacancies, lang, page, pages, is_more,
                   params, response, sent, received, first_found, all_hh_vacancies,
                   all_sj_vacancies, hh_average_salary, sj_average_salary, printed,
                   error, vacancy>>

PredictSJ ==
    /\ pc = "predict_sj"
    /\ rub_salary' = predict_sj_rub_salary(vacancy)
    /\ pc' = "predicted_sj"
    /\ UNCHANGED <<hh_token, sj_token, language_vacancies, lang, page, pages, is_more,
                   params, response, sent, received, first_found, all_hh_vacancies,
                   all_sj_vacancies, hh_average_salary, sj_average_salary, printed,
                   error, vacancy>>

NextPredict == PredictHH \/ PredictSJ

SpecPredict == InitPredict /\ [][NextPredict]_vars

----------------------------------------------------------------------------
(* collect_average_salary *)

RECURSIVE Accumulate(_, _, _, _)
\* The loop over one language's items: [sum_salary, salary_num] after it.
Accumulate(p, items, sum_salary, salary_num) ==
    IF items = <<>>
    THEN [sum_salary |-> sum_salary, salary_num |-> salary_num]
    ELSE LET estimate == Predict(p, Head(items)) IN
         IF estimate # None
         THEN Accumulate(p, Tail(items), sum_salary + Val(estimate), salary_num + 1)
         ELSE Accumulate(p, Tail(items), sum_salary, salary_num)

\* int(sum_salary / salary_num) raises ZeroDivisionError for this language.
LanguageRaises(p, lv) == Accumulate(p, lv.items, 0, 0).salary_num = 0

\* language_stat with the mean taken over all items of the language.
language_stat_over_items(p, lv) ==
    LET acc == Accumulate(p, lv.items, 0, 0) IN
    [vacancies_found |-> lv.found,
     vacancies_processed |-> acc.salary_num,
     average_salary |-> Trunc(acc.sum_salary, Len(lv.items))]

\* language_stat of one language that does not raise.
language_stat(p, lv) ==
    LET acc == Accumulate(p, lv.items, 0, 0) IN
    [vacancies_found |-> lv.found,
     vacancies_processed |-> acc.salary_num,
     average_salary |-> Trunc(acc.sum_salary, acc.salary_num)]

CollectRaises(vacancies, p) == \E l \in DOMAIN vacancies : LanguageRaises(p, vacancies[l])

collect_average_salary(vacancies, p) ==
    [l \in DOMAIN vacancies |-> language_stat(p, vacancies[l])]

----------------------------------------------------------------------------
(* The servers and the environment *)

\* The first two of the ten languages of main; a language listed twice (as "Java"
\* is in main) has its entry started afresh by DictSet.
Languages == <<"Python", "Java">>

LanguageSet == {Languages[i] : i \in 1..Len(Languages)}

\* response.raise_for_status() raises HTTPError.
RaisesForStatus(r) == r.status >= 400 /\ r.status < 600

Failure == [status |-> 403]

\* AfterHTTPError with the exception swallowed inside the loop.
AfterHTTPErrorSwallowed(loop) == loop

\* Where the program is after raise_for_status() raised in the loop at `loop`:
\* nothing catches the HTTPError, so it ends the fetcher and the program.
AfterHTTPError(loop) == "crashed"

\* Total match counts a search response may report.
ReportedTotals == {1, 5}

HHResponses(Pages) ==
    {Failure} \cup
    {[status |-> 200, pages |-> n, items |-> it, found |-> f] :
        n \in 0..MaxRequests, it \in Pages, f \in ReportedTotals}

SJResponses(Pages) ==
    {Failure} \cup
    {[status |-> 200, more |-> m, objects |-> it, total |-> f] :
        m \in BOOLEAN, it \in Pages, f \in ReportedTotals}

HHTokenResponses == {Failure, [status |-> 200, access_token |-> "hh-token"]}

SJTokenResponses == {Failure, [status |-> 200, access_token |-> "sj-token"]}

\* Values of the environment variable HH_CLIENT_TOKEN ("None": not set).
HHEnvTokens == {"None", "hh-env-token"}

get_hh_access_token(r) == IF RaisesForStatus(r) THEN "None" ELSE r.access_token

get_sj_access_token(r) == IF RaisesForStatus(r) THEN "None" ELSE r.access_token

\* The listings the search servers return.
HHEstimated == HHVacancy("RUR", Some(1000), Some(2000))

HHForeign == HHVacancy("USD", Some(500), Some(600))

SJEstimated == SJVacancy("rub", Some(1000), Some(2000))

SJUnpaid == SJVacancy("rub", Some(0), Some(0))

\* Pages of the full program's runs, and of the fetchers run on their own.
MainHHPages == {<<>>, <<HHEstimated>>}

MainSJPages == {<<>>, <<SJEstimated>>}

FetchHHPages == {<<>>, <<HHEstimated>>, <<HHForeign>>}

FetchSJPages == {<<>>, <<SJEstimated>>, <<SJUnpaid>>}

----------------------------------------------------------------------------
(* get_all_hh_vacancies *)

HHLocals == <<hh_token, sj_token, all_hh_vacancies, all_sj_vacancies, hh_average_salary,
              sj_average_salary, printed, vacancy, rub_salary>>

\* for language in hh_languages: the next language's entry and loop variables.
HHForNext ==
    /\ pc = "hh_for"
    /\ lang <= Len(Languages)
    /\ language_vacancies' = DictSet(language_vacancies, Languages[lang], [items |-> <<>>, found |-> 0])
    /\ page' = 0
    /\ pages' = 1
    /\ sent' = 0
    /\ received' = <<>>
    /\ first_found' = None
    /\ pc' = "hh_while"
    /\ UNCHANGED <<HHLocals, lang, is_more, params, response, error>>

\* HHEntry with found taken from the total the first page reports.
HHEntryReportedTotal(entry, r) ==
    [items |-> entry.items \o r.items,
     found |-> IF sent = 0 THEN r.found ELSE entry.found]

\* The new entry of the language after a successful response.
HHEntry(entry, r) == [items |-> entry.items \o r.items, found |-> entry.found + Len(r.items)]

\* HHContinue that also fetches the page whose index is the page count.
HHContinueInclusive(pg, pgs) == pg <= pgs

\* while page < pages
HHContinue(pg, pgs) == pg < pgs

\* One iteration of while page < pages: a request and its response.
HHRequest(Pages) ==
    /\ pc = "hh_while"
    /\ HHContinue(page, pages)
    /\ sent < MaxRequests
    /\ \E r \in HHResponses(Pages) :
        /\ params' = [platform |-> "hh", text |-> Languages[lang], page |-> page, token |-> hh_token]
        /\ response' = r
        /\ sent' = sent + 1
        /\ IF RaisesForStatus(r)
           THEN /\ error' = "HTTPError"
                /\ pc' = AfterHTTPError("hh_while")
                /\ UNCHANGED <<language_vacancies, page, pages, received, first_found>>
           ELSE /\ pages' = r.pages
                /\ language_vacancies' =
                       [language_vacancies EXCEPT ![Languages[lang]] = HHEntry(@, r)]
                /\ page' = page + 1
                /\ received' = received \o r.items
                /\ first_found' = IF sent = 0 THEN Some(r.found) ELSE first_found
                /\ UNCHANGED <<error, pc>>
    /\ UNCHANGED <<HHLocals, lang, is_more>>

\* The while loop ends: on to the next language.
HHWhileExit ==
    /\ pc = "hh_while"
    /\ ~HHContinue(page, pages)
    /\ lang' = lang + 1
    /\ pc' = "hh_for"
    /\ UNCHANGED <<HHLocals, language_vacancies, page, pages, is_more, params, response,
                   sent, received, first_found, error>>

\* return language_vacancies, assigned to all_hh_vacancies.
HHReturn ==
    /\ pc = "hh_for"
    /\ lang > Len(Languages)
    /\ all_hh_vacancies' = Some(language_vacancies)
    /\ pc' = "hh_collect"
    /\ UNCHANGED <<hh_token, sj_token, language_vacancies, lang, page, pages, is_more,
                   params, response, sent, received, first_found, all_sj_vacancies,
                   hh_average_salary, sj_average_salary, printed, error, vacancy, rub_salary>>

----------------------------------------------------------------------------
(* get_all_sj_vacancies *)

SJForNext ==
    /\ pc = "sj_for"
    /\ lang <= Len(Languages)
    /\ language_vacancies' = DictSet(language_vacancies, Languages[lang], [items |-> <<>>, found |-> 0])
    /\ is_more' = TRUE
    /\ page' = 0
    /\ sent' = 0
    /\ received' = <<>>
    /\ first_found' = None
    /\ pc' = "sj_while"
    /\ UNCHANGED <<HHLocals, lang, pages, params, response, error>>

\* SJEntry with the objects of a response without more results left out.
SJEntryDropsLast(entry, r) ==
    IF r.more
    THEN [items |-> entry.items \o r.objects, found |-> entry.found + Len(r.objects)]
    ELSE entry

SJEntry(entry, r) == [items |-> entry.items \o r.objects, found |-> entry.found + Len(r.objects)]

\* One iteration of while is_more: a request and its response.
SJRequest(Pages) ==
    /\ pc = "sj_while"
    /\ is_more
    /\ sent < MaxRequests
    /\ \E r \in SJResponses(Pages) :
        /\ params' = [platform |-> "sj", text |-> Languages[lang], page |-> page, token |-> sj_token]
        /\ response' = r
        /\ sent' = sent + 1
        /\ IF RaisesForStatus(r)
           THEN /\ error' = "HTTPError"
                /\ pc' = AfterHTTPError("sj_while")
                /\ UNCHANGED <<language_vacancies, page, is_more, received, first_found>>
           ELSE /\ is_more' = r.more
                /\ page' = page + 1
                /\ language_vacancies' =
                       [language_vacancies EXCEPT ![Languages[lang]] = SJEntry(@, r)]
                /\ received' = received \o r.objects
                /\ first_found' = IF sent = 0 THEN Some(r.total) ELSE first_found
                /\ UNCHANGED <<error, pc>>
    /\ UNCHANGED <<HHLocals, lang, pages>>

SJWhileExit ==
    /\ pc = "sj_while"
    /\ ~is_more
    /\ lang' = lang + 1
    /\ pc' = "sj_for"
    /\ UNCHANGED <<HHLocals, language_vacancies, page, pages, is_more, params, response,
                   sent, received, first_found, error>>

SJReturn ==
    /\ pc = "sj_for"
    /\ lang > Len(Languages)
    /\ all_sj_vacancies' = Some(language_vacancies)
    /\ pc' = "sj_collect"
    /\ UNCHANGED <<hh_token, sj_token, language_vacancies, lang, page, pages, is_more,
                   params, response, sent, received, first_found, all_hh_vacancies,
                   hh_average_salary, sj_average_salary, printed, error, vacancy, rub_salary>>

----------------------------------------------------------------------------
(* The main program *)

Fetching == <<language_vacancies, lang, page, pages, is_more, params, response, sent,
              received, first_found>>

\* load_dotenv() .. hh_token, and the call of get_all_hh_vacancies.
MainGetHHToken ==
    /\ pc = "main"
    /\ \E env \in HHEnvTokens, r \in HHTokenResponses :
        hh_token' = IF env = "None" THEN get_hh_access_token(r) ELSE env
    /\ language_vacancies' = EmptyDict
    /\ lang' = 1
    /\ pc' = "hh_for"
    /\ UNCHANGED <<sj_token, page, pages, is_more, params, response, sent, received,
                   first_found, all_hh_vacancies, all_sj_vacancies, hh_average_salary,
                   sj_average_salary, printed, error, vacancy, rub_salary>>

\* hh_average_salary = collect_average_salary(all_hh_vacancies, predict_hh_rub_salary)
MainCollectHH ==
    /\ pc = "hh_collect"
    /\ IF CollectRaises(Val(all_hh_vacancies), "hh")
       THEN /\ error' = "ZeroDivisionError"
            /\ pc' = "crashed"
            /\ UNCHANGED hh_average_salary
       ELSE /\ hh_average_salary' = Some(collect_average_salary(Val(all_hh_vacancies), "hh"))
            /\ pc' = "sj_token"
            /\ UNCHANGED error
    /\ UNCHANGED <<Fetching, hh_token, sj_token, all_hh_vacancies, all_sj_vacancies,
                   sj_average_salary, printed, vacancy, rub_salary>>

\* sj_token = get_sj_access_token(..), and the call of get_all_sj_vacancies.
MainGetSJToken ==
    /\ pc = "sj_token"
    /\ \E r \in SJTokenResponses : sj_token' = get_sj_access_token(r)
    /\ language_vacancies' = EmptyDict
    /\ lang' = 1
    /\ pc' = "sj_for"
    /\ UNCHANGED <<hh_token, page, pages, is_more, params, response, sent, received,
                   first_found, all_hh_vacancies, all_sj_vacancies, hh_average_salary,
                   sj_average_salary, printed, error, vacancy, rub_salary>>

\* sj_average_salary = collect_average_salary(all_sj_vacancies, predict_sj_rub_salary)
MainCollectSJ ==
    /\ pc = "sj_collect"
    /\ IF CollectRaises(Val(all_sj_vacancies), "sj")
       THEN /\ error' = "ZeroDivisionError"
            /\ pc' = "crashed"
            /\ UNCHANGED sj_average_salary
       ELSE /\ sj_average_salary' = Some(collect_average_salary(Val(all_sj_vacancies), "sj"))
            /\ pc' = "print_hh"
            /\ UNCHANGED error
    /\ UNCHANGED <<Fetching, hh_token, sj_token, all_hh_vacancies, all_sj_vacancies,
                   hh_average_salary, printed, vacancy, rub_salary>>

\* The table print_statistic writes: the title and a row per language.
print_statistic(stats, title) == [title |-> title, rows |-> stats]

MainPrintHH ==
    /\ pc = "print_hh"
    /\ printed' = Append(printed, print_statistic(Val(hh_average_salary), "HeadHunter Moscow"))
    /\ pc' = "print_sj"
    /\ UNCHANGED <<Fetching, hh_token, sj_token, all_hh_vacancies, all_sj_vacancies,
                   hh_average_salary, sj_average_salary, error, vacancy, rub_salary>>

MainPrintSJ ==
    /\ pc = "print_sj"
    /\ printed' = Append(printed, print_statistic(Val(sj_average_salary), "SuperJob Moscow"))
    /\ pc' = "done"
    /\ UNCHANGED <<Fetching, hh_token, sj_token, all_hh_vacancies, all_sj_vacancies,
                   hh_average_salary, sj_average_salary, error, vacancy, rub_salary>>

Init ==
    /\ Idle
    /\ pc = "main"
    /\ vacancy = NoVacancy
    /\ rub_salary = None

Next ==
    \/ MainGetHHToken
    \/ HHForNext
    \/ HHRequest(MainHHPages)
    \/ HHWhileExit
    \/ HHReturn
    \/ MainCollectHH
    \/ MainGetSJToken
    \/ SJForNext
    \/ SJRequest(MainSJPages)
    \/ SJWhileExit
    \/ SJReturn
    \/ MainCollectSJ
    \/ MainPrintHH
    \/ MainPrintSJ

Spec == Init /\ [][Next]_vars

----------------------------------------------------------------------------
(* The fetchers called on their own, with a token *)

InitFetch ==
    /\ hh_token = "hh-token"
    /\ sj_token = "sj-token"
    /\ pc \in {"hh_for", "sj_for"}
    /\ IdleFetcher
    /\ all_hh_vacancies = None
    /\ all_sj_vacancies = None
    /\ NoOutput
    /\ vacancy = NoVacancy
    /\ rub_salary = None

NextFetch ==
    \/ HHForNext
    \/ HHRequest(FetchHHPages)
    \/ HHWhileExit
    \/ HHReturn
    \/ SJForNext
    \/ SJRequest(FetchSJPages)
    \/ SJWhileExit
    \/ SJReturn

SpecFetch == InitFetch /\ [][NextFetch]_vars

----------------------------------------------------------------------------
(* collect_average_salary called on its own, on a result set *)

SeqUpTo(S, n) == UNION {[1..k -> S] : k \in 0..n}

\* The found values of the result sets.
FoundCounts == {2, 5}

CollectHHVacancies ==
    {HHEstimated, HHForeign, HHVacancy("RUR", Some(1), Some(2)), HHNoSalary}

CollectSJVacancies ==
    {SJEstimated, SJUnpaid, SJVacancy("usd", Some(1), Some(2)), SJVacancy("rub", None, Some(3))}

ResultSets(V) == [LanguageSet -> [items : SeqUpTo(V, MaxItems), found : FoundCounts]]

InitCollect ==
    /\ hh_token = "hh-token"
    /\ sj_token = "sj-token"
    /\ IdleFetcher
    /\ NoOutput
    /\ vacancy = NoVacancy
    /\ rub_salary = None
    /\ \/ /\ pc = "hh_collect"
          /\ \E rs \in ResultSets(CollectHHVacancies) : all_hh_vacancies = Some(rs)
          /\ all_sj_vacancies = None
       \/ /\ pc = "sj_collect"
          /\ all_hh_vacancies = None
          /\ \E rs \in ResultSets(CollectSJVacancies) : all_sj_vacancies = Some(rs)

NextCollect == MainCollectHH \/ MainCollectSJ

SpecCollect == InitCollect /\ [][NextCollect]_vars

----------------------------------------------------------------------------
(* Properties of the estimators, under SpecPredict *)

Predicted == pc \in {"predicted_hh", "predicted_sj"}

\* The vacancy is in the platform's local currency and carries salary data.
LocalCurrency ==
    \/ pc = "predicted_hh" /\ vacancy.salary # None /\ Val(vacancy.salary).currency = "RUR"
    \/ pc = "predicted_sj" /\ vacancy.currency = "rub"

\* The lower and the upper bound of the vacancy (of an HH vacancy with a salary).
Low == IF pc = "predicted_hh" THEN Val(vacancy.salary).from ELSE vacancy.payment_from

High == IF pc = "predicted_hh" THEN Val(vacancy.salary).to ELSE vacancy.payment_to

Positive(o) == o # None /\ Val(o) > 0

Zero(o) == o # None /\ Val(o) = 0

\* r is the integer floor(n / d), for d > 0.
IsFloor(r, n, d) == r # None /\ d * Val(r) <= n /\ n < d * (Val(r) + 1)

\* C2: both estimators treat a bound equal to 0 exactly as an absent bound: for a
\* local-currency listing, (0, 0) gives None, (0, h) gives floor(h * 0.8) and
\* (l, 0) gives floor(l * 1.2).
C2_ZeroBoundIsAbsent ==
    (Predicted /\ LocalCurrency) =>
        /\ (Zero(Low) /\ Zero(High)) => rub_salary = None
        /\ (Zero(Low) /\ Positive(High)) => IsFloor(rub_salary, 8 * Val(High), 10)
        /\ (Positive(Low) /\ Zero(High)) => IsFloor(rub_salary, 12 * Val(Low), 10)

\* C3: for both estimators a listing whose currency is absent or is not the
\* platform's local currency, and a listing whose salary is absent, yields None
\* whatever its bounds are.
C3_ForeignCurrencyIsUnknown ==
    /\ (pc = "predicted_hh" /\ vacancy.salary = None) => rub_salary = None
    /\ (Predicted /\ ~LocalCurrency) => rub_salary = None

\* C5: for both estimators and every local-currency listing whose bounds are
\* absent or positive integers: both absent gives None, only the upper bound gives
\* floor(high * 0.8), only the lower bound gives floor(low * 1.2), both give
\* floor(low + (high - low) / 2).
C5_EstimateByCase ==
    (Predicted /\ LocalCurrency) =>
        /\ (Low = None /\ High = None) => rub_salary = None
        /\ (Low = None /\ Positive(High)) => IsFloor(rub_salary, 8 * Val(High), 10)
        /\ (Positive(Low) /\ High = None) => IsFloor(rub_salary, 12 * Val(Low), 10)
        /\ (Positive(Low) /\ Positive(High)) =>
               IsFloor(rub_salary, 2 * Val(Low) + (Val(High) - Val(Low)), 2)

\* C5 witness: an HH listing in RUR with only a lower bound of 1000 was estimated at 1200.
C5_Witness ==
    /\ pc = "predicted_hh"
    /\ vacancy = HHVacancy("RUR", Some(1000), None)
    /\ rub_salary = Some(1200)

----------------------------------------------------------------------------
(* Properties of collect_average_salary, under SpecCollect *)

CollectEnded == pc \in {"sj_token", "print_hh", "crashed"}

CollectPredictor == IF all_sj_vacancies # None THEN "sj" ELSE "hh"

CollectIn == IF all_sj_vacancies # None THEN Val(all_sj_vacancies) ELSE Val(all_hh_vacancies)

CollectOut == IF all_sj_vacancies # None THEN sj_average_salary ELSE hh_average_salary

\* The positions of the language's items whose estimate is defined.
Estimated(l) ==
    {i \in 1..Len(CollectIn[l].items) : Predict(CollectPredictor, CollectIn[l].items[i]) # None}

RECURSIVE EstimateSum(_, _)
\* The sum of the estimates of the items of language l at the positions I.
EstimateSum(l, I) ==
    IF I = {} THEN 0
    ELSE LET i == CHOOSE x \in I : TRUE IN
         Val(Predict(CollectPredictor, CollectIn[l].items[i])) + EstimateSum(l, I \ {i})

\* C1: a term none of whose listings has a defined estimate (an empty items list
\* in particular) does not make collect_average_salary fail: it returns
\* vacancies_found = found, vacancies_processed = 0 and average_salary = 0 for it.
C1_NoEstimateGivesZero ==
    CollectEnded =>
        /\ error = "none"
        /\ CollectOut # None
        /\ \A l \in DOMAIN CollectIn :
               Estimated(l) = {} =>
                   Val(CollectOut)[l] = [vacancies_found |-> CollectIn[l].found,
                                         vacancies_processed |-> 0,
                                         average_salary |-> 0]

\* C6: when every term has at least one listing with a defined estimate,
\* collect_average_salary returns, for each term, vacancies_found = found,
\* vacancies_processed = the number of listings with a defined estimate (at most
\* len(items)) and average_salary = the sum of the defined estimates divided by
\* vacancies_processed, truncated.
C6_CollectStatistics ==
    (CollectEnded /\ \A l \in DOMAIN CollectIn : Estimated(l) # {}) =>
        /\ error = "none"
        /\ CollectOut # None
        /\ DOMAIN Val(CollectOut) = DOMAIN CollectIn
        /\ \A l \in DOMAIN CollectIn :
               LET stat == Val(CollectOut)[l] IN
               /\ stat.vacancies_found = CollectIn[l].found
               /\ stat.vacancies_processed = Cardinality(Estimated(l))
               /\ stat.vacancies_processed <= Len(CollectIn[l].items)
               /\ IsFloor(Some(stat.average_salary), EstimateSum(l, Estimated(l)),
                          Cardinality(Estimated(l)))

\* C6 witness: one RUR listing 1000..2000 and one USD listing with found = 2 gave
\* {2, 1, 1500} for Python.
C6_Witness ==
    /\ pc = "sj_token"
    /\ CollectIn["Python"] = [items |-> <<HHEstimated, HHForeign>>, found |-> 2]
    /\ Val(hh_average_salary)["Python"] =
           [vacancies_found |-> 2, vacancies_processed |-> 1, average_salary |-> 1500]

----------------------------------------------------------------------------
(* Properties of the fetchers, under SpecFetch *)

\* The while loop of the language before Languages[lang] has just ended.
HHTermFinished == pc = "hh_for" /\ lang > 1

SJTermFinished == pc = "sj_for" /\ lang > 1

\* The entry of the language whose loop has just ended.
FinishedEntry == language_vacancies[Languages[lang - 1]]

C7_Pages ==
    /\ (params.platform = "hh" /\ sent > 0) => params.page = sent - 1
    /\ HHTermFinished =>
           /\ sent >= 1
           /\ page = sent
           /\ ~(page < response.pages)
           /\ FinishedEntry.items = received

C7_Request ==
    (pc = "hh_while" /\ sent' = sent + 1) =>
        /\ params'.page = page
        /\ sent = 0 => page = 0
        /\ sent >= 1 => page < response.pages
        /\ ~RaisesForStatus(response') =>
               language_vacancies'[Languages[lang]].items =
                   language_vacancies[Languages[lang]].items \o response'.items

\* C7: for one term get_all_hh_vacancies requests the pages 0, 1, 2, .. in order,
\* requests page p >= 1 only when p is less than the page count of the most recent
\* response and stops when it is not, and the term's items are then the
\* concatenation, in request order, of the items of the responses received.
C7_HHPagination == [](C7_Pages) /\ [][C7_Request]_vars

\* C7 witness: three responses, the last declaring 3 pages, ended the term after
\* exactly 3 requests with the three pages' listings in order.
C7_Witness ==
    /\ HHTermFinished
    /\ sent = 3
    /\ response.pages = 3
    /\ FinishedEntry.items = <<HHEstimated, HHForeign, HHEstimated>>

C8_Pages ==
    /\ (params.platform = "sj" /\ sent > 0) => params.page = sent - 1
    /\ SJTermFinished =>
           /\ sent >= 1
           /\ page = sent
           /\ response.more = FALSE
           /\ FinishedEntry.items = received

C8_Request ==
    (pc = "sj_while" /\ sent' = sent + 1) =>
        /\ params'.page = page
        /\ sent = 0 => page = 0
        /\ sent >= 1 => response.more = TRUE
        /\ ~RaisesForStatus(response') => received' = received \o response'.objects

\* C8: for one term get_all_sj_vacancies requests the pages 0, 1, 2, .. and ends
\* right after the first response whose more flag is false, so after exactly k
\* requests when that is the k-th response; the objects of that last response are
\* among the term's items.
C8_SJPagination == [](C8_Pages) /\ [][C8_Request]_vars

\* C8 witness: more = true, true, false ended the term after exactly 3 requests,
\* the last response's listing being the last item.
C8_Witness ==
    /\ SJTermFinished
    /\ sent = 3
    /\ response.objects = <<SJUnpaid>>
    /\ FinishedEntry.items = <<SJEstimated, SJEstimated, SJUnpaid>>

----------------------------------------------------------------------------
(* Properties of the whole program, under Spec *)

\* The last page request returned a non-success status.
RequestFailed == params.platform # "none" /\ RaisesForStatus(response)

C9_NoPartialResult ==
    RequestFailed =>
        /\ pc = "crashed"
        /\ error = "HTTPError"
        /\ printed = <<>>
        /\ params.platform = "hh" => (all_hh_vacancies = None /\ hh_average_salary = None)
        /\ params.platform = "sj" => (all_sj_vacancies = None /\ sj_average_salary = None)

C9_NoFurtherRequest ==
    RequestFailed =>
        UNCHANGED <<sent, params, response, all_hh_vacancies, all_sj_vacancies,
                    hh_average_salary, sj_average_salary>>

\* C9: in both fetchers a page request that returns a non-success status fails the
\* fetch at once: no further request is issued, and no result set with the term's
\* partial items is returned or handed to collect_average_salary.
C9_FailFast == [](C9_NoPartialResult) /\ [][C9_NoFurtherRequest]_vars

\* C9 witness: the second SuperJob request of a language failed after the first
\* had delivered a listing.
C9_Witness ==
    /\ RequestFailed
    /\ params.platform = "sj"
    /\ sent = 2
    /\ received # <<>>
    /\ all_sj_vacancies = None

\* C10: when token acquisition yields no credential the run stops before any search
\* request: no request of get_all_hh_vacancies or get_all_sj_vacancies carries a
\* null token.
C10_NoRequestWithoutToken ==
    params.platform # "none" => params.token # "None"

=============================================================================
